---- MODULE Spec2Model ----
(***************************************************************************)
(* A model of the BingX broker client of trading-go: the signed request    *)
(* helper (makeRequest), the response checks of every facade operation and *)
(* the normalisation of wire records into broker.Position / broker.Order / *)
(* broker.Balance.                                                         *)
(*                                                                         *)
(* Decimal numbers (float64 in the source) are integers counting tenths:   *)
(* the wire text "0.1" decodes to 1, "10" to 100.  Position.Leverage is an *)
(* int in the source and counts whole units here.  Timestamps of the       *)
(* domain objects (time.Now()) are left out: nothing branches on them.     *)
(***************************************************************************)
EXTENDS Integers, Sequences, FiniteSets, TLC

VARIABLES
    pc,        \* "idle": no call in progress; "done": a call has returned
    op,        \* the facade operation that was invoked
    args,      \* its arguments
    request,   \* what the operation handed to the transport
    resp,      \* what the transport produced for it
    retList,   \* returned list   ([]*broker.Position, []*broker.Order)
    retObj,    \* returned object (*broker.Position, *broker.Order, *broker.Balance)
    retPrice,  \* returned float64 (GetCurrentPrice)
    retErr,    \* returned error
    client,    \* the fields of the Client the calls are made on
    calls      \* the calls goroutines have in progress on the client

\* the state of the one-call-at-a-time machine
sequential == <<pc, op, args, request, resp, retList, retObj, retPrice, retErr>>

vars == <<pc, op, args, request, resp, retList, retObj, retPrice, retErr, client, calls>>

----------------------------------------------------------------------------
(* Bounds of the model *)

\* longest data list in a success-coded response
MaxRecords == 2

\* goroutines calling the client at the same time
MaxGoroutines == 2

----------------------------------------------------------------------------
(* Program constants *)

APISuccessCode == 0

StatusOK == 200

EndpointBalance == "/openApi/swap/v3/user/balance"
EndpointPositions == "/openApi/swap/v2/user/positions"
EndpointPlaceOrder == "/openApi/swap/v2/trade/order"
EndpointOpenOrders == "/openApi/swap/v2/trade/openOrders"
EndpointCancelAll == "/openApi/swap/v2/trade/allOpenOrders"
EndpointLeverage == "/openApi/swap/v2/trade/leverage"
EndpointPrice == "/openApi/swap/v1/ticker/price"

SideLong == "LONG"
SideShort == "SHORT"

OrderTypeLimit == "LIMIT"

----------------------------------------------------------------------------
(* Errors *)

\* the nil error
NoError == [kind |-> "nil", Broker |-> "", Code |-> "", Message |-> "", Err |-> "nil"]

\* NewBrokerError leaving the cause out of the error
NewBrokerErrorNoCause(broker, code, message, err) ==
    [kind |-> "BrokerError", Broker |-> broker, Code |-> code,
     Message |-> message, Err |-> "nil"]

\* broker.NewBrokerError(broker, code, message, err); Err names the wrapped
\* cause, "nil" when there is none
NewBrokerError(broker, code, message, err) ==
    [kind |-> "BrokerError", Broker |-> broker, Code |-> code,
     Message |-> message, Err |-> err]

\* the canonical errors of package broker, named by their texts
CanonicalErrors ==
    {"invalid symbol", "invalid price", "invalid quantity", "insufficient balance",
     "position not found", "order not found", "leverage exceeds maximum",
     "authentication failed", "rate limited", "API error"}

\* a cause that itself wraps a canonical error: fmt.Errorf("...: %w", err)
Wrapping(text) == "wrapped: " \o text

\* Unwrap of a cause that is no BrokerError, "nil" when it wraps nothing
UnwrapCause(cause) ==
    IF \E text \in CanonicalErrors : cause = Wrapping(text)
    THEN CHOOSE text \in CanonicalErrors : cause = Wrapping(text)
    ELSE "nil"

\* the errors met when Unwrap is followed from a cause
RECURSIVE CauseChain(_)
CauseChain(cause) ==
    IF cause = "nil" THEN {} ELSE {cause} \cup CauseChain(UnwrapCause(cause))

\* Unwrap returning nil for every error
UnwrapNothing(err) == "nil"

\* (*BrokerError).Unwrap: the wrapped cause; the other errors wrap none
Unwrap(err) == IF err.kind = "BrokerError" THEN err.Err ELSE "nil"

\* errors.Is(err, target) for a target named by its text: the error is the
\* target or the chain of Unwrap leads to it (a *url.Error of the transport
\* unwraps to the cause it names)
Is(err, target) ==
    \/ err.kind = "sentinel" /\ err.Message = target
    \/ target \in CauseChain(Unwrap(err))

\* the canonical error broker.ErrPositionNotFound (errors.New)
ErrPositionNotFound ==
    [kind |-> "sentinel", Broker |-> "", Code |-> "",
     Message |-> "position not found", Err |-> "nil"]

\* a nil *broker.Position / *broker.Order / *broker.Balance
NilObj == [nil |-> TRUE]

----------------------------------------------------------------------------
(* Decoding of numbers *)

\* strconv.ParseFloat(s, 64) on the wire texts of the model: the value in
\* tenths and whether an error is returned (the value is 0 on a syntax error)
ParseFloat(s) ==
    CASE s = "0"       -> [v |-> 0,     err |-> FALSE]
      [] s = "0.0"     -> [v |-> 0,     err |-> FALSE]
      [] s = "0.1"     -> [v |-> 1,     err |-> FALSE]
      [] s = "-0.1"    -> [v |-> -1,    err |-> FALSE]
      [] s = "0.5"     -> [v |-> 5,     err |-> FALSE]
      [] s = "10"      -> [v |-> 100,   err |-> FALSE]
      [] s = "25"      -> [v |-> 250,   err |-> FALSE]
      [] s = "50.5"    -> [v |-> 505,   err |-> FALSE]
      [] s = "50.00"   -> [v |-> 500,   err |-> FALSE]
      [] s = "100.00"  -> [v |-> 1000,  err |-> FALSE]
      [] s = "950.00"  -> [v |-> 9500,  err |-> FALSE]
      [] s = "1050.00" -> [v |-> 10500, err |-> FALSE]
      [] OTHER         -> [v |-> 0,     err |-> TRUE]

\* value, _ := strconv.ParseFloat(s, 64): the error is discarded
ParseFloatIgnoringError(s) == ParseFloat(s).v

\* int(f): conversion of a float64 to int truncates towards zero
IntOf(f) == IF f >= 0 THEN f \div 10 ELSE -((-f) \div 10)

\* A json.RawMessage: its JSON shape with the string or number it holds
RawString(s) == [t |-> "string", s |-> s, n |-> 0]
RawNumber(n) == [t |-> "number", s |-> "", n |-> n]
RawNull == [t |-> "null", s |-> "", n |-> 0]
RawBool == [t |-> "bool", s |-> "", n |-> 0]
RawAbsent == [t |-> "absent", s |-> "", n |-> 0]
RawObject == [t |-> "object", s |-> "", n |-> 0]
RawArray == [t |-> "array", s |-> "", n |-> 0]

\* json.Unmarshal(raw, &str): a JSON string is stored, null leaves str ""
\* with no error, every other shape is an error
UnmarshalString(raw) ==
    CASE raw.t = "string" -> [ok |-> TRUE, s |-> raw.s]
      [] raw.t = "null"   -> [ok |-> TRUE, s |-> ""]
      [] OTHER            -> [ok |-> FALSE, s |-> ""]

\* json.Unmarshal(raw, &f): a JSON number is stored, null leaves f 0
UnmarshalFloat(raw) ==
    CASE raw.t = "number" -> [ok |-> TRUE, n |-> raw.n]
      [] raw.t = "null"   -> [ok |-> TRUE, n |-> 0]
      [] OTHER            -> [ok |-> FALSE, n |-> 0]

\* GetLeverageFloat returning 0 and no error for a shape it cannot decode
GetLeverageFloatLenient(raw) ==
    IF UnmarshalString(raw).ok
    THEN ParseFloat(UnmarshalString(raw).s)
    ELSE IF UnmarshalFloat(raw).ok
         THEN [v |-> UnmarshalFloat(raw).n, err |-> FALSE]
         ELSE [v |-> 0, err |-> FALSE]

GetLeverageFloat(raw) ==
    IF UnmarshalString(raw).ok
    THEN ParseFloat(UnmarshalString(raw).s)
    ELSE IF UnmarshalFloat(raw).ok
         THEN [v |-> UnmarshalFloat(raw).n, err |-> FALSE]
         ELSE [v |-> 0, err |-> TRUE]

\* GetLiquidationPriceFloat without the test for the empty string
GetLiquidationPriceFloatNoEmptyTest(raw) ==
    IF UnmarshalString(raw).ok
    THEN ParseFloat(UnmarshalString(raw).s)
    ELSE IF UnmarshalFloat(raw).ok
         THEN [v |-> UnmarshalFloat(raw).n, err |-> FALSE]
         ELSE [v |-> 0, err |-> TRUE]

\* GetLiquidationPriceFloat decoding strings only
GetLiquidationPriceFloatStringOnly(raw) ==
    IF UnmarshalString(raw).ok
    THEN IF UnmarshalString(raw).s = ""
         THEN [v |-> 0, err |-> FALSE]
         ELSE ParseFloat(UnmarshalString(raw).s)
    ELSE [v |-> 0, err |-> TRUE]

GetLiquidationPriceFloat(raw) ==
    IF UnmarshalString(raw).ok
    THEN IF UnmarshalString(raw).s = ""
         THEN [v |-> 0, err |-> FALSE]
         ELSE ParseFloat(UnmarshalString(raw).s)
    ELSE IF UnmarshalFloat(raw).ok
         THEN [v |-> UnmarshalFloat(raw).n, err |-> FALSE]
         ELSE [v |-> 0, err |-> TRUE]

\* the wire values of a leverage or liquidationPrice field
RawValues ==
    {RawString(x) : x \in {"10", "25", "50.5", "0.1", "-0.1", "0.5", "0", "0.0", "100.00",
                           "", "abc", "invalid"}}
    \cup {RawNumber(n) : n \in {0, 1, -1, 5, 100, 250, 505}}
    \cup {RawNull, RawBool, RawObject, RawArray, RawAbsent}

\* the error of a decoder: a *strconv.NumError or the fmt.Errorf of the
\* last line
DecodeError(field) ==
    [kind |-> "error", Broker |-> "", Code |-> "",
     Message |-> "unable to parse " \o field, Err |-> "nil"]

----------------------------------------------------------------------------
(* The client and its requests *)

\* NewClient(apiKey, secretKey, demoMode): the fields of the one client
Client ==
    [apiKey |-> "key", secretKey |-> "secret",
     baseURL |-> "https://open-api-vst.bingx.com"]

\* time.Now().UnixMilli() as read by makeRequest
Clock == {1700}

\* no parameters: make(map[string]string)
EmptyParams == [k \in {} |-> ""]

\* every parameter key the client sends, in the byte order url.Values.Encode
\* sorts keys in
SortedKeys ==
    <<"leverage", "orderId", "positionSide", "price", "quantity", "reduceOnly",
      "side", "stopLoss", "stopPrice", "symbol", "takeProfit", "timeInForce",
      "timestamp", "type">>

\* url.Values.Encode(): the key=value pairs in sorted key order
Encode(params) ==
    LET present(k) == k \in DOMAIN params
        keys == SelectSeq(SortedKeys, present)
    IN [i \in 1..Len(keys) |-> <<keys[i], params[keys[i]]>>]

\* Client.sign: the HMAC-SHA256 of the canonical string under the secret key,
\* kept symbolic (equal exactly when key and string are equal)
sign(c, queryString) == <<"HMAC-SHA256", c.secretKey, queryString>>

\* strconv.FormatInt(n, 10) / strconv.Itoa(n) / fmt.Sprintf("%d", n)
FormatInt(n) == ToString(n)

\* params["timestamp"] = strconv.FormatInt(timestamp, 10)
Stamped(params, now) ==
    [k \in (DOMAIN params) \cup {"timestamp"} |->
        IF k = "timestamp" THEN FormatInt(now) ELSE params[k]]

\* the orders in which a range over the map can yield its keys
RangeOrders(params) ==
    {o \in [1..Cardinality(DOMAIN params) -> DOMAIN params] :
        \A i, j \in DOMAIN o : i # j => o[i] # o[j]}

\* sort.Strings left out of Encode
SortStringsNone(keys) == keys

\* sort.Strings(keys), as url.Values.Encode calls it on the keys it ranged over
SortStrings(keys) ==
    LET present(k) == \E i \in DOMAIN keys : keys[i] = k
    IN SelectSeq(SortedKeys, present)

\* url.Values.Encode() when the range over the map yields the keys in the
\* given order
EncodeRanged(params, order) ==
    LET keys == SortStrings(order)
    IN [i \in 1..Len(keys) |-> <<keys[i], params[keys[i]]>>]

\* the request built when the signature is computed before the timestamp
\* is added
BuildRequestSignFirst(c, method, endpoint, params, now) ==
    LET queryString == Encode(Stamped(params, now))
        signature == sign(c, Encode(params))
    IN [method |-> method, url |-> c.baseURL \o endpoint,
        query |-> queryString, signature |-> signature,
        rawQuery |-> queryString \o <<<<"signature", signature>>>>,
        apiKey |-> c.apiKey, via |-> "makeRequest", sends |-> 0]

\* The request makeRequest builds: the timestamp is added to the parameters,
\* the canonical string (query) is signed and the signature appended to it
\* in the URL (rawQuery); sends counts the calls of httpClient.Do with it
BuildRequest(c, method, endpoint, params, now) ==
    LET stamped == [k \in (DOMAIN params) \cup {"timestamp"} |->
                       IF k = "timestamp" THEN FormatInt(now) ELSE params[k]]
        queryString == Encode(stamped)
        signature == sign(c, queryString)
    IN [method |-> method, url |-> c.baseURL \o endpoint,
        query |-> queryString, signature |-> signature,
        rawQuery |-> queryString \o <<<<"signature", signature>>>>,
        apiKey |-> c.apiKey, via |-> "makeRequest", sends |-> 0]

\* the request makeRequest builds when the ranges over the parameter map
\* yield the keys in the given order
BuildRequestRanged(c, method, endpoint, params, now, order) ==
    LET queryString == EncodeRanged(Stamped(params, now), order)
        signature == sign(c, queryString)
    IN [method |-> method, url |-> c.baseURL \o endpoint,
        query |-> queryString, signature |-> signature,
        rawQuery |-> queryString \o <<<<"signature", signature>>>>,
        apiKey |-> c.apiKey, via |-> "makeRequest", sends |-> 0]

\* no request was sent
NoRequest ==
    [method |-> "", url |-> "", query |-> <<>>, signature |-> <<>>,
     rawQuery |-> <<>>, apiKey |-> "", via |-> "", sends |-> 0]

\* What the transport produces for one call:
\*   kind "doerr":   httpClient.Do failed (cause: the network, or the context)
\*   kind "readerr": reading the response body failed
\*   kind "resp":    a status code and a body
\* A body is "garbage" (not JSON), "mistyped" (a JSON object whose data has
\* another shape than the response struct's, whatever its code) or an
\* "envelope" {code, msg, data}.
Garbage == [kind |-> "garbage", code |-> 0, msg |-> "", hasData |-> FALSE, data |-> <<>>]
Mistyped(code, msg) ==
    [kind |-> "mistyped", code |-> code, msg |-> msg, hasData |-> TRUE, data |-> <<>>]
Envelope(code, msg, hasData, data) ==
    [kind |-> "envelope", code |-> code, msg |-> msg, hasData |-> hasData, data |-> data]

DoError(cause) == [kind |-> "doerr", cause |-> cause, status |-> 0, body |-> Garbage]
ReadError == [kind |-> "readerr", cause |-> "read", status |-> 0, body |-> Garbage]
Response(status, body) == [kind |-> "resp", cause |-> "nil", status |-> status, body |-> body]

\* string(body)
BodyText(body) == ToString(body)

\* makeRequest without the check of the HTTP status
makeRequestNoStatusCheck(c, method, endpoint, params, now, t) ==
    LET req == [BuildRequest(c, method, endpoint, params, now) EXCEPT !.sends = 1]
    IN IF t.kind = "doerr"
       THEN [req |-> req, body |-> Garbage,
             err |-> NewBrokerError("bingx", "REQUEST_FAILED", "HTTP request failed", t.cause)]
       ELSE IF t.kind = "readerr"
       THEN [req |-> req, body |-> Garbage,
             err |-> NewBrokerError("bingx", "READ_FAILED", "Failed to read response", t.cause)]
       ELSE [req |-> req, body |-> t.body, err |-> NoError]

\* makeRequest calling httpClient.Do once more when the call fails
makeRequestRetrying(c, method, endpoint, params, now, t) ==
    LET req == [BuildRequest(c, method, endpoint, params, now) EXCEPT !.sends = 1]
    IN IF t.kind = "doerr"
       THEN [req |-> [req EXCEPT !.sends = 2], body |-> Garbage,
             err |-> NewBrokerError("bingx", "REQUEST_FAILED", "HTTP request failed", t.cause)]
       ELSE IF t.kind = "readerr"
       THEN [req |-> req, body |-> Garbage,
             err |-> NewBrokerError("bingx", "READ_FAILED", "Failed to read response", t.cause)]
       ELSE IF t.status # StatusOK
       THEN [req |-> req, body |-> Garbage,
             err |-> NewBrokerError("bingx", "HTTP_ERROR",
                        "HTTP " \o FormatInt(t.status) \o ": " \o BodyText(t.body), "nil")]
       ELSE [req |-> req, body |-> t.body, err |-> NoError]

\* makeRequest: the body on success, else the error of the first failing step;
\* httpClient.Do is called once
makeRequest(c, method, endpoint, params, now, t) ==
    LET req == [BuildRequest(c, method, endpoint, params, now) EXCEPT !.sends = 1]
    IN IF t.kind = "doerr"
       THEN [req |-> req, body |-> Garbage,
             err |-> NewBrokerError("bingx", "REQUEST_FAILED", "HTTP request failed", t.cause)]
       ELSE IF t.kind = "readerr"
       THEN [req |-> req, body |-> Garbage,
             err |-> NewBrokerError("bingx", "READ_FAILED", "Failed to read response", t.cause)]
       ELSE IF t.status # StatusOK
       THEN [req |-> req, body |-> Garbage,
             err |-> NewBrokerError("bingx", "HTTP_ERROR",
                        "HTTP " \o FormatInt(t.status) \o ": " \o BodyText(t.body), "nil")]
       ELSE [req |-> req, body |-> t.body, err |-> NoError]

\* json.Unmarshal(body, &response) succeeds when the body is JSON of the
\* response struct's shape
UnmarshalOK(body) == body.kind = "envelope"

\* an error code that leaves the exchange's code out
APICodeFixed(code) == "API_ERROR"

\* fmt.Sprintf("API_%d", response.Code)
APICode(code) == "API_" \o FormatInt(code)

----------------------------------------------------------------------------
(* What the exchange may answer *)

\* Sequences over S of length at most n
SeqUpTo(S, n) == UNION {[1..k -> S] : k \in 0..n}

Symbols == {"BTC-USDT", "ETH-USDT"}

\* envelope heads {code, msg} of rejected requests
ErrorHeads ==
    {<<100400, "Insufficient margin">>, <<100400, "">>, <<80014, "Invalid symbol">>}

\* HTTP statuses other than 200
ErrorStatuses == {500, 429}

\* causes of a failed httpClient.Do
DoCauses == {"context canceled", "context deadline exceeded", "dial tcp: timeout"}

\* PositionData records (types.go): the five fields the Position is built
\* from that the claims are about; avgPrice, markPrice, unrealizedProfit,
\* realisedProfit, initialMargin and maintenanceMargin are decoded by the same
\* ParseFloat-and-discard step as positionAmt and reach no branch.
PositionData(symbol, positionSide, positionAmt, leverage, liquidationPrice) ==
    [symbol |-> symbol, positionSide |-> positionSide, positionAmt |-> positionAmt,
     leverage |-> leverage, liquidationPrice |-> liquidationPrice]

PositionRecords ==
    \* symbol x direction x amount
    {PositionData(s, ps, amt, RawString("10"), RawString("")) :
        s \in Symbols, ps \in {"LONG", "SHORT"}, amt \in {"0.1", "-0.1", "0", "abc"}}
    \cup
    \* direction tokens other than the canonical two
    {PositionData("BTC-USDT", ps, amt, RawString("10"), RawString("")) :
        ps \in {"long", "", "BOTH"}, amt \in {"0.5", "0.0"}}
    \cup
    \* shapes of leverage and liquidation price
    {PositionData("ETH-USDT", "LONG", "0.5", lev, liq) :
        lev \in {RawNumber(250), RawBool}, liq \in {RawNumber(505), RawNull}}

\* the transport outcomes of one operation whose success payload is drawn
\* from okData and whose failing payloads are drawn from errData; zero is the
\* payload decoded from an envelope without data
OutcomesOf(okData, errData, zero) ==
    {Response(StatusOK, Envelope(APISuccessCode, "", TRUE, d)) : d \in okData}
    \cup {Response(StatusOK, Envelope(APISuccessCode, "", FALSE, zero))}
    \cup {Response(StatusOK, Envelope(h[1], h[2], TRUE, d)) : h \in ErrorHeads, d \in errData}
    \cup {Response(StatusOK, b) :
             b \in {Garbage, Mistyped(APISuccessCode, "")}
                   \cup {Mistyped(h[1], h[2]) : h \in ErrorHeads}}
    \cup {Response(st, b) : st \in ErrorStatuses,
             b \in {Garbage} \cup {Envelope(APISuccessCode, "", TRUE, d) : d \in errData}
                   \cup {Envelope(h[1], h[2], TRUE, d) : h \in ErrorHeads, d \in errData}}
    \cup {DoError(c) : c \in DoCauses}
    \cup {ReadError}

PositionsOutcomes ==
    OutcomesOf(SeqUpTo(PositionRecords, MaxRecords), SeqUpTo(PositionRecords, 1), <<>>)

\* OpenOrderData records (types.go): the fields the Order's identity, side,
\* type, status, reduce-only flag, size and price are built from; stopPrice,
\* executedQty and avgPrice are decoded like origQty, timeInForce and
\* clientOrderId are copied.
OpenOrderData(orderId, symbol, side, positionSide, type, status, origQty, price) ==
    [orderId |-> orderId, symbol |-> symbol, side |-> side,
     positionSide |-> positionSide, type |-> type, status |-> status,
     origQty |-> origQty, price |-> price]

WireOrderTypes ==
    {"LIMIT", "MARKET", "STOP", "STOP_MARKET", "TAKE_PROFIT", "TAKE_PROFIT_MARKET"}

OrderRecords ==
    \* type x status
    {OpenOrderData(7, "BTC-USDT", "BUY", "LONG", ty, st, "0.1", "25") :
        ty \in WireOrderTypes, st \in {"NEW", "PARTIALLY_FILLED"}}
    \cup
    \* action x direction
    {OpenOrderData(8, "BTC-USDT", sd, ps, "LIMIT", "NEW", "0.1", "25") :
        sd \in {"BUY", "SELL"}, ps \in {"LONG", "SHORT"}}
    \cup
    \* tokens other than the canonical ones
    {OpenOrderData(9, "ETH-USDT", "SELL", "long", "stop", "NEW", "0.5", ""),
     OpenOrderData(9, "ETH-USDT", "sell", "LONG", "STOP", "new", "abc", "abc"),
     OpenOrderData(9, "ETH-USDT", "", "", "TRAILING_STOP_MARKET", "PENDING", "0", "0")}

\* the acknowledgement of PlaceOrder (OrderResponse.Data) has the same fields
ZeroOrderData == OpenOrderData(0, "", "", "", "", "", "", "")

OrdersOutcomes ==
    OutcomesOf(SeqUpTo(OrderRecords, MaxRecords), SeqUpTo(OrderRecords, 1), <<>>)

PlaceOrderOutcomes == OutcomesOf(OrderRecords, OrderRecords, ZeroOrderData)

\* BalanceData records (types.go)
BalanceData(asset, equity, availableMargin, usedMargin, unrealizedProfit, realisedProfit) ==
    [asset |-> asset, equity |-> equity, availableMargin |-> availableMargin,
     usedMargin |-> usedMargin, unrealizedProfit |-> unrealizedProfit,
     realisedProfit |-> realisedProfit]

BalanceRecords ==
    {BalanceData("USDT", "1050.00", "950.00", "100.00", "50.00", "0"),
     BalanceData("USDT", "1050.00", "950.00", "25", "-0.1", "0.5"),
     BalanceData("VST", "0", "0", "0", "0", "0"),
     BalanceData("", "abc", "", "10", "0.1", "abc")}

BalanceOutcomes ==
    OutcomesOf(SeqUpTo(BalanceRecords, MaxRecords), SeqUpTo(BalanceRecords, 1), <<>>)

\* PriceResponse.Data
PriceData(symbol, price) == [symbol |-> symbol, price |-> price]

PriceRecords ==
    {PriceData(s, p) : s \in Symbols, p \in {"0.1", "25", "0", "abc", ""}}

PriceOutcomes == OutcomesOf(PriceRecords, PriceRecords, PriceData("", ""))

\* responses whose data the client does not read (cancel, leverage)
AckOutcomes == OutcomesOf({<<>>}, {<<>>}, <<>>)

----------------------------------------------------------------------------
(* Positions *)

\* a nil *broker.PositionFilter, and the filters a caller may pass; Side is
\* "nil" for a nil *Side
NilFilter == [nil |-> TRUE, Symbol |-> "", Side |-> "nil"]
PositionFilter(symbol, side) == [nil |-> FALSE, Symbol |-> symbol, Side |-> side]

PositionFilters ==
    {NilFilter} \cup
    {PositionFilter(s, sd) : s \in {"", "BTC-USDT"}, sd \in {"nil", SideLong, SideShort}}

\* the loop without the skip of zero sizes
RECURSIVE PositionsLoopKeepZero(_, _)
PositionsLoopKeepZero(data, filter) ==
    IF data = <<>> THEN <<>>
    ELSE
      LET pos == Head(data)
          size == ParseFloatIgnoringError(pos.positionAmt)
          side == IF pos.positionSide = "LONG" THEN SideLong ELSE SideShort
          leverage == IF GetLeverageFloat(pos.leverage).err
                      THEN 0 ELSE GetLeverageFloat(pos.leverage).v
          liquidationPrice == IF GetLiquidationPriceFloat(pos.liquidationPrice).err
                              THEN 0 ELSE GetLiquidationPriceFloat(pos.liquidationPrice).v
          rest == PositionsLoopKeepZero(Tail(data), filter)
      IN IF ~filter.nil /\ filter.Side # "nil" /\ filter.Side # side THEN rest
         ELSE <<[Symbol |-> pos.symbol, Side |-> side, Size |-> size,
                 LiquidationPrice |-> liquidationPrice,
                 Leverage |-> IntOf(leverage)]>> \o rest

\* the loop with a direction test that ignores case
RECURSIVE PositionsLoopAnyCase(_, _)
PositionsLoopAnyCase(data, filter) ==
    IF data = <<>> THEN <<>>
    ELSE
      LET pos == Head(data)
          size == ParseFloatIgnoringError(pos.positionAmt)
          side == IF pos.positionSide \in {"LONG", "long"} THEN SideLong ELSE SideShort
          leverage == IF GetLeverageFloat(pos.leverage).err
                      THEN 0 ELSE GetLeverageFloat(pos.leverage).v
          liquidationPrice == IF GetLiquidationPriceFloat(pos.liquidationPrice).err
                              THEN 0 ELSE GetLiquidationPriceFloat(pos.liquidationPrice).v
          rest == PositionsLoopAnyCase(Tail(data), filter)
      IN IF size = 0 THEN rest
         ELSE IF ~filter.nil /\ filter.Side # "nil" /\ filter.Side # side THEN rest
         ELSE <<[Symbol |-> pos.symbol, Side |-> side, Size |-> size,
                 LiquidationPrice |-> liquidationPrice,
                 Leverage |-> IntOf(leverage)]>> \o rest

\* the loop of GetPositions over response.Data
RECURSIVE PositionsLoop(_, _)
PositionsLoop(data, filter) ==
    IF data = <<>> THEN <<>>
    ELSE
      LET pos == Head(data)
          size == ParseFloatIgnoringError(pos.positionAmt)
          side == IF pos.positionSide = "LONG" THEN SideLong ELSE SideShort
          leverage == IF GetLeverageFloat(pos.leverage).err
                      THEN 0 ELSE GetLeverageFloat(pos.leverage).v
          liquidationPrice == IF GetLiquidationPriceFloat(pos.liquidationPrice).err
                              THEN 0 ELSE GetLiquidationPriceFloat(pos.liquidationPrice).v
          rest == PositionsLoop(Tail(data), filter)
      IN IF size = 0 THEN rest
         ELSE IF ~filter.nil /\ filter.Side # "nil" /\ filter.Side # side THEN rest
         ELSE <<[Symbol |-> pos.symbol, Side |-> side, Size |-> size,
                 LiquidationPrice |-> liquidationPrice,
                 Leverage |-> IntOf(leverage)]>> \o rest

\* Client.GetPositions: the returned list and error, with the request sent
GetPositions(c, filter, now, t) ==
    LET params == IF ~filter.nil /\ filter.Symbol # ""
                  THEN [k \in {"symbol"} |-> filter.Symbol] ELSE EmptyParams
        r == makeRequest(c, "GET", EndpointPositions, params, now, t)
    IN IF r.err # NoError
       THEN [req |-> r.req, list |-> <<>>, err |-> r.err]
       ELSE IF ~UnmarshalOK(r.body)
       THEN [req |-> r.req, list |-> <<>>,
             err |-> NewBrokerError("bingx", "PARSE_ERROR",
                        "Failed to parse positions response", "json")]
       ELSE IF r.body.code # APISuccessCode
       THEN [req |-> r.req, list |-> <<>>,
             err |-> NewBrokerError("bingx", APICode(r.body.code), r.body.msg, "nil")]
       ELSE [req |-> r.req, list |-> PositionsLoop(r.body.data, filter), err |-> NoError]

\* GetPosition returning the last element of the list
GetPositionLast(c, symbol, now, t) ==
    LET r == GetPositions(c, PositionFilter(symbol, "nil"), now, t)
    IN IF r.err # NoError
       THEN [req |-> r.req, obj |-> NilObj, err |-> r.err]
       ELSE IF Len(r.list) = 0
       THEN [req |-> r.req, obj |-> NilObj, err |-> ErrPositionNotFound]
       ELSE [req |-> r.req, obj |-> r.list[Len(r.list)], err |-> NoError]

\* GetPosition labelling its result with the requested symbol
GetPositionEchoSymbol(c, symbol, now, t) ==
    LET r == GetPositions(c, PositionFilter(symbol, "nil"), now, t)
    IN IF r.err # NoError
       THEN [req |-> r.req, obj |-> NilObj, err |-> r.err]
       ELSE IF Len(r.list) = 0
       THEN [req |-> r.req, obj |-> NilObj, err |-> ErrPositionNotFound]
       ELSE [req |-> r.req, obj |-> [r.list[1] EXCEPT !.Symbol = symbol], err |-> NoError]

\* Client.GetPosition: the returned object and error
GetPosition(c, symbol, now, t) ==
    LET filter == PositionFilter(symbol, "nil")
        r == GetPositions(c, filter, now, t)
    IN IF r.err # NoError
       THEN [req |-> r.req, obj |-> NilObj, err |-> r.err]
       ELSE IF Len(r.list) = 0
       THEN [req |-> r.req, obj |-> NilObj, err |-> ErrPositionNotFound]
       ELSE [req |-> r.req, obj |-> r.list[1], err |-> NoError]

----------------------------------------------------------------------------
(* Orders *)

\* a nil *broker.OrderFilter, and the filters a caller may pass; Side and
\* Status are both *OrderStatus (types.go), "nil" for a nil pointer
NilOrderFilter == [nil |-> TRUE, Symbol |-> "", Side |-> "nil", Status |-> "nil"]
OrderFilter(symbol, side, status) ==
    [nil |-> FALSE, Symbol |-> symbol, Side |-> side, Status |-> status]

OrderFilters ==
    {NilOrderFilter, OrderFilter("BTC-USDT", "nil", "nil")} \cup
    {OrderFilter("", sd, st) : sd \in {"nil", "NEW", "PENDING"},
                               st \in {"nil", "NEW", "PENDING"}}

\* mapBingXStatus with the two *_MARKET trigger types left out
mapBingXStatusNoMarket(bingxStatus, orderType) ==
    IF orderType \in {"STOP", "TAKE_PROFIT"} /\ bingxStatus = "NEW"
    THEN "PENDING"
    ELSE bingxStatus

\* mapBingXStatus
mapBingXStatus(bingxStatus, orderType) ==
    LET triggerTypes == {"STOP", "STOP_MARKET", "TAKE_PROFIT", "TAKE_PROFIT_MARKET"}
    IN IF orderType \in triggerTypes /\ bingxStatus = "NEW"
       THEN "PENDING"
       ELSE bingxStatus

\* isReduceOnly with the directions exchanged
isReduceOnlyOpening(side, positionSide) ==
    \/ (side = "SELL" /\ positionSide = "SHORT")
    \/ (side = "BUY" /\ positionSide = "LONG")

\* isReduceOnly
isReduceOnly(side, positionSide) ==
    \/ (side = "SELL" /\ positionSide = "LONG")
    \/ (side = "BUY" /\ positionSide = "SHORT")

\* the loop of GetOrders over response.Data.Orders (positions.go)
RECURSIVE OrdersLoop(_, _)
OrdersLoop(data, filter) ==
    IF data = <<>> THEN <<>>
    ELSE
      LET o == Head(data)
          side == IF o.positionSide = "LONG" THEN SideLong ELSE SideShort
          reduceOnly == isReduceOnly(o.side, o.positionSide)
          rest == OrdersLoop(Tail(data), filter)
      IN IF ~filter.nil /\ filter.Side # "nil" /\ filter.Side # o.status THEN rest
         ELSE <<[ID |-> FormatInt(o.orderId), Symbol |-> o.symbol, Side |-> side,
                 Type |-> o.type, Status |-> mapBingXStatus(o.status, o.type),
                 Size |-> ParseFloatIgnoringError(o.origQty),
                 Price |-> ParseFloatIgnoringError(o.price),
                 ReduceOnly |-> reduceOnly]>> \o rest

\* the loop of GetOrders over response.Data in orders.go, the file's other
\* definition of the method: the status is copied and ReduceOnly is not set
RECURSIVE OrdersLoopPlain(_, _)
OrdersLoopPlain(data, filter) ==
    IF data = <<>> THEN <<>>
    ELSE
      LET o == Head(data)
          side == IF o.positionSide = "LONG" THEN SideLong ELSE SideShort
          rest == OrdersLoopPlain(Tail(data), filter)
      IN IF ~filter.nil /\ filter.Side # "nil" /\ filter.Side # o.status THEN rest
         ELSE <<[ID |-> FormatInt(o.orderId), Symbol |-> o.symbol, Side |-> side,
                 Type |-> o.type, Status |-> o.status,
                 Size |-> ParseFloatIgnoringError(o.origQty),
                 Price |-> ParseFloatIgnoringError(o.price),
                 ReduceOnly |-> FALSE]>> \o rest

\* the request and the response checks both definitions of GetOrders share
OrdersEnvelope(c, filter, now, t) ==
    LET params == IF ~filter.nil /\ filter.Symbol # ""
                  THEN [k \in {"symbol"} |-> filter.Symbol] ELSE EmptyParams
        r == makeRequest(c, "GET", EndpointOpenOrders, params, now, t)
    IN IF r.err # NoError
       THEN [req |-> r.req, data |-> <<>>, err |-> r.err]
       ELSE IF ~UnmarshalOK(r.body)
       THEN [req |-> r.req, data |-> <<>>,
             err |-> NewBrokerError("bingx", "PARSE_ERROR",
                        "Failed to parse orders response", "json")]
       ELSE IF r.body.code # APISuccessCode
       THEN [req |-> r.req, data |-> <<>>,
             err |-> NewBrokerError("bingx", APICode(r.body.code), r.body.msg, "nil")]
       ELSE [req |-> r.req, data |-> r.body.data, err |-> NoError]

\* Client.GetOrders (positions.go)
GetOrders(c, filter, now, t) ==
    LET e == OrdersEnvelope(c, filter, now, t)
    IN [req |-> e.req, err |-> e.err,
        list |-> IF e.err # NoError THEN <<>> ELSE OrdersLoop(e.data, filter)]

\* Client.GetOrders (orders.go)
GetOrdersPlain(c, filter, now, t) ==
    LET e == OrdersEnvelope(c, filter, now, t)
    IN [req |-> e.req, err |-> e.err,
        list |-> IF e.err # NoError THEN <<>> ELSE OrdersLoopPlain(e.data, filter)]

\* fmt.Sprintf("%.8f", f)
Format8f(f) ==
    LET a == IF f < 0 THEN -f ELSE f
    IN (IF f < 0 THEN "-" ELSE "") \o ToString(a \div 10) \o "."
       \o ToString(a % 10) \o "0000000"

\* fmt.Sprintf("%g", f): the shortest decimal text
FormatG(f) ==
    LET a == IF f < 0 THEN -f ELSE f
    IN (IF f < 0 THEN "-" ELSE "") \o ToString(a \div 10)
       \o (IF a % 10 = 0 THEN "" ELSE "." \o ToString(a % 10))

\* a nil *StopLossConfig / *TakeProfitConfig, and a config
NoConfig == [nil |-> TRUE, TriggerPrice |-> 0, OrderPrice |-> 0, WorkingType |-> ""]
LegConfig(triggerPrice, orderPrice, workingType) ==
    [nil |-> FALSE, TriggerPrice |-> triggerPrice, OrderPrice |-> orderPrice,
     WorkingType |-> workingType]

OrderRequest(symbol, side, type, size, price, stopPrice, timeInForce, reduceOnly, stopLoss, takeProfit) ==
    [Symbol |-> symbol, Side |-> side, Type |-> type, Size |-> size, Price |-> price,
     StopPrice |-> stopPrice, TimeInForce |-> timeInForce, ReduceOnly |-> reduceOnly,
     StopLoss |-> stopLoss, TakeProfit |-> takeProfit]

OrderRequests ==
    \* side x type x time in force x reduce-only
    {OrderRequest("BTC-USDT", sd, ty, 1, IF ty = "LIMIT" THEN 250 ELSE 0,
                  IF ty = "STOP" THEN 100 ELSE 0, tif, ro, NoConfig, NoConfig) :
        sd \in {SideLong, SideShort}, ty \in {"LIMIT", "MARKET", "STOP"},
        tif \in {"", "IOC"}, ro \in BOOLEAN}
    \cup
    \* attached stop-loss / take-profit legs
    {OrderRequest("ETH-USDT", SideLong, "MARKET", 5, 0, 0, "", FALSE, sl, tp) :
        sl \in {NoConfig, LegConfig(100, 0, "MARK_PRICE"), LegConfig(100, 5, "LAST_PRICE")},
        tp \in {NoConfig, LegConfig(505, 250, "LAST_PRICE")}}

\* PlaceOrder defaulting the time in force to GTC for every order type
PlaceOrderParamsAlwaysGTC(order) ==
    LET side == IF order.Side = SideShort THEN "SELL" ELSE "BUY"
        positionSide == IF order.Side = SideShort THEN "SHORT" ELSE "LONG"
        keys == {"symbol", "side", "positionSide", "type", "quantity"}
                \cup (IF order.Price > 0 THEN {"price"} ELSE {})
                \cup (IF order.StopPrice > 0 THEN {"stopPrice"} ELSE {})
                \cup {"timeInForce"}
                \cup (IF order.ReduceOnly THEN {"reduceOnly"} ELSE {})
                \cup (IF ~order.StopLoss.nil THEN {"stopLoss"} ELSE {})
                \cup (IF ~order.TakeProfit.nil THEN {"takeProfit"} ELSE {})
    IN [k \in keys |->
          CASE k = "symbol"       -> order.Symbol
            [] k = "side"         -> side
            [] k = "positionSide" -> positionSide
            [] k = "type"         -> order.Type
            [] k = "quantity"     -> Format8f(order.Size)
            [] k = "price"        -> Format8f(order.Price)
            [] k = "stopPrice"    -> Format8f(order.StopPrice)
            [] k = "timeInForce"  -> IF order.TimeInForce # ""
                                     THEN order.TimeInForce ELSE "GTC"
            [] k = "reduceOnly"   -> "true"
            [] k = "stopLoss"     ->
                 "{\"type\":\"STOP\",\"stopPrice\":" \o FormatG(order.StopLoss.TriggerPrice)
                 \o ",\"price\":" \o FormatG(order.StopLoss.TriggerPrice)
                 \o ",\"workingType\":\"MARK_PRICE\"}"
            [] k = "takeProfit"   ->
                 "{\"type\":\"TAKE_PROFIT\",\"stopPrice\":"
                 \o FormatG(order.TakeProfit.TriggerPrice)
                 \o ",\"price\":" \o FormatG(order.TakeProfit.OrderPrice)
                 \o ",\"workingType\":\"MARK_PRICE\"}"]

\* the parameters PlaceOrder builds
PlaceOrderParams(order) ==
    LET side == IF order.Side = SideShort THEN "SELL" ELSE "BUY"
        positionSide == IF order.Side = SideShort THEN "SHORT" ELSE "LONG"
        keys == {"symbol", "side", "positionSide", "type", "quantity"}
                \cup (IF order.Price > 0 THEN {"price"} ELSE {})
                \cup (IF order.StopPrice > 0 THEN {"stopPrice"} ELSE {})
                \cup (IF order.TimeInForce # "" \/ order.Type = OrderTypeLimit
                      THEN {"timeInForce"} ELSE {})
                \cup (IF order.ReduceOnly THEN {"reduceOnly"} ELSE {})
                \cup (IF ~order.StopLoss.nil THEN {"stopLoss"} ELSE {})
                \cup (IF ~order.TakeProfit.nil THEN {"takeProfit"} ELSE {})
    IN [k \in keys |->
          CASE k = "symbol"       -> order.Symbol
            [] k = "side"         -> side
            [] k = "positionSide" -> positionSide
            [] k = "type"         -> order.Type
            [] k = "quantity"     -> Format8f(order.Size)
            [] k = "price"        -> Format8f(order.Price)
            [] k = "stopPrice"    -> Format8f(order.StopPrice)
            [] k = "timeInForce"  -> IF order.TimeInForce # ""
                                     THEN order.TimeInForce ELSE "GTC"
            [] k = "reduceOnly"   -> "true"
            [] k = "stopLoss"     ->
                 "{\"type\":\"STOP\",\"stopPrice\":" \o FormatG(order.StopLoss.TriggerPrice)
                 \o ",\"price\":" \o FormatG(order.StopLoss.TriggerPrice)
                 \o ",\"workingType\":\"MARK_PRICE\"}"
            [] k = "takeProfit"   ->
                 "{\"type\":\"TAKE_PROFIT\",\"stopPrice\":"
                 \o FormatG(order.TakeProfit.TriggerPrice)
                 \o ",\"price\":" \o FormatG(order.TakeProfit.OrderPrice)
                 \o ",\"workingType\":\"MARK_PRICE\"}"]

\* makeRequestWithPayload: called by PlaceOrder and defined in none of the
\* source files; taken to treat the transport's answer as makeRequest does
makeRequestWithPayload(c, method, endpoint, params, now, t) ==
    [makeRequest(c, method, endpoint, params, now, t)
       EXCEPT !.req.via = "makeRequestWithPayload"]

\* Client.PlaceOrder (positions.go)
PlaceOrder(c, order, now, t) ==
    LET params == PlaceOrderParams(order)
        r == IF ~order.StopLoss.nil \/ ~order.TakeProfit.nil
             THEN makeRequestWithPayload(c, "POST", EndpointPlaceOrder, params, now, t)
             ELSE makeRequest(c, "POST", EndpointPlaceOrder, params, now, t)
    IN IF r.err # NoError
       THEN [req |-> r.req, obj |-> NilObj, err |-> r.err]
       ELSE IF ~UnmarshalOK(r.body)
       THEN [req |-> r.req, obj |-> NilObj,
             err |-> NewBrokerError("bingx", "PARSE_ERROR",
                        "Failed to parse order response", "json")]
       ELSE IF r.body.code # APISuccessCode
       THEN [req |-> r.req, obj |-> NilObj,
             err |-> NewBrokerError("bingx", APICode(r.body.code), r.body.msg, "nil")]
       ELSE LET d == r.body.data
            IN [req |-> r.req, err |-> NoError,
                obj |-> [ID |-> FormatInt(d.orderId), Symbol |-> d.symbol,
                         Side |-> IF d.positionSide = "LONG" THEN SideLong ELSE SideShort,
                         Type |-> d.type, Status |-> d.status,
                         Size |-> ParseFloatIgnoringError(d.origQty),
                         Price |-> ParseFloatIgnoringError(d.price),
                         ReduceOnly |-> FALSE]]

\* the response checks made with the API code tested before the decoding
AckOnlyCodeFirst(r, parseMessage) ==
    IF r.err # NoError THEN r.err
    ELSE IF r.body.code # APISuccessCode
    THEN NewBrokerError("bingx", APICode(r.body.code), r.body.msg, "nil")
    ELSE IF ~UnmarshalOK(r.body)
    THEN NewBrokerError("bingx", "PARSE_ERROR", parseMessage, "json")
    ELSE NoError

\* the response checks of an operation that returns only an error
AckOnly(r, parseMessage) ==
    IF r.err # NoError THEN r.err
    ELSE IF ~UnmarshalOK(r.body)
    THEN NewBrokerError("bingx", "PARSE_ERROR", parseMessage, "json")
    ELSE IF r.body.code # APISuccessCode
    THEN NewBrokerError("bingx", APICode(r.body.code), r.body.msg, "nil")
    ELSE NoError

\* Client.CancelOrder
CancelOrder(c, symbol, orderID, now, t) ==
    LET params == [k \in {"symbol", "orderId"} |->
                      IF k = "symbol" THEN symbol ELSE orderID]
        r == makeRequest(c, "DELETE", EndpointPlaceOrder, params, now, t)
    IN [req |-> r.req, err |-> AckOnly(r, "Failed to parse cancel response")]

\* Client.CancelAllOrders
CancelAllOrders(c, symbol, now, t) ==
    LET params == IF symbol # "" THEN [k \in {"symbol"} |-> symbol] ELSE EmptyParams
        r == makeRequest(c, "DELETE", EndpointCancelAll, params, now, t)
    IN [req |-> r.req, err |-> AckOnly(r, "Failed to parse cancel all response")]

----------------------------------------------------------------------------
(* Balance, price, leverage *)

\* GetBalance testing for an empty list before it tests the code
GetBalanceEmptyFirst(c, now, t) ==
    LET r == makeRequest(c, "GET", EndpointBalance, EmptyParams, now, t)
    IN IF r.err # NoError
       THEN [req |-> r.req, obj |-> NilObj, err |-> r.err]
       ELSE IF ~UnmarshalOK(r.body)
       THEN [req |-> r.req, obj |-> NilObj,
             err |-> NewBrokerError("bingx", "PARSE_ERROR",
                        "Failed to parse balance response", "json")]
       ELSE IF Len(r.body.data) = 0
       THEN [req |-> r.req, obj |-> NilObj,
             err |-> NewBrokerError("bingx", "NO_DATA", "No balance data returned", "nil")]
       ELSE IF r.body.code # APISuccessCode
       THEN [req |-> r.req, obj |-> NilObj,
             err |-> NewBrokerError("bingx", APICode(r.body.code), r.body.msg, "nil")]
       ELSE LET data == r.body.data[1]
            IN [req |-> r.req, err |-> NoError,
                obj |-> [Asset |-> data.asset,
                         Total |-> ParseFloatIgnoringError(data.equity),
                         Available |-> ParseFloatIgnoringError(data.availableMargin),
                         InUse |-> ParseFloatIgnoringError(data.usedMargin),
                         UnrealizedPnL |-> ParseFloatIgnoringError(data.unrealizedProfit),
                         RealizedPnL |-> ParseFloatIgnoringError(data.realisedProfit)]]

\* GetBalance computing InUse as Total - Available
GetBalanceComputedInUse(c, now, t) ==
    LET r == makeRequest(c, "GET", EndpointBalance, EmptyParams, now, t)
    IN IF r.err # NoError
       THEN [req |-> r.req, obj |-> NilObj, err |-> r.err]
       ELSE IF ~UnmarshalOK(r.body)
       THEN [req |-> r.req, obj |-> NilObj,
             err |-> NewBrokerError("bingx", "PARSE_ERROR",
                        "Failed to parse balance response", "json")]
       ELSE IF r.body.code # APISuccessCode
       THEN [req |-> r.req, obj |-> NilObj,
             err |-> NewBrokerError("bingx", APICode(r.body.code), r.body.msg, "nil")]
       ELSE IF Len(r.body.data) = 0
       THEN [req |-> r.req, obj |-> NilObj,
             err |-> NewBrokerError("bingx", "NO_DATA", "No balance data returned", "nil")]
       ELSE LET data == r.body.data[1]
            IN [req |-> r.req, err |-> NoError,
                obj |-> [Asset |-> data.asset,
                         Total |-> ParseFloatIgnoringError(data.equity),
                         Available |-> ParseFloatIgnoringError(data.availableMargin),
                         InUse |-> ParseFloatIgnoringError(data.equity)
                                    - ParseFloatIgnoringError(data.availableMargin),
                         UnrealizedPnL |-> ParseFloatIgnoringError(data.unrealizedProfit),
                         RealizedPnL |-> ParseFloatIgnoringError(data.realisedProfit)]]

\* Client.GetBalance
GetBalance(c, now, t) ==
    LET r == makeRequest(c, "GET", EndpointBalance, EmptyParams, now, t)
    IN IF r.err # NoError
       THEN [req |-> r.req, obj |-> NilObj, err |-> r.err]
       ELSE IF ~UnmarshalOK(r.body)
       THEN [req |-> r.req, obj |-> NilObj,
             err |-> NewBrokerError("bingx", "PARSE_ERROR",
                        "Failed to parse balance response", "json")]
       ELSE IF r.body.code # APISuccessCode
       THEN [req |-> r.req, obj |-> NilObj,
             err |-> NewBrokerError("bingx", APICode(r.body.code), r.body.msg, "nil")]
       ELSE IF Len(r.body.data) = 0
       THEN [req |-> r.req, obj |-> NilObj,
             err |-> NewBrokerError("bingx", "NO_DATA", "No balance data returned", "nil")]
       ELSE LET data == r.body.data[1]
            IN [req |-> r.req, err |-> NoError,
                obj |-> [Asset |-> data.asset,
                         Total |-> ParseFloatIgnoringError(data.equity),
                         Available |-> ParseFloatIgnoringError(data.availableMargin),
                         InUse |-> ParseFloatIgnoringError(data.usedMargin),
                         UnrealizedPnL |-> ParseFloatIgnoringError(data.unrealizedProfit),
                         RealizedPnL |-> ParseFloatIgnoringError(data.realisedProfit)]]

\* GetCurrentPrice returning the price of a rejected response with the error
GetCurrentPriceKeepingPrice(c, symbol, now, t) ==
    LET r == makeRequest(c, "GET", EndpointPrice, [k \in {"symbol"} |-> symbol], now, t)
    IN IF r.err # NoError
       THEN [req |-> r.req, price |-> 0, err |-> r.err]
       ELSE IF ~UnmarshalOK(r.body)
       THEN [req |-> r.req, price |-> 0,
             err |-> NewBrokerError("bingx", "PARSE_ERROR",
                        "Failed to parse price response", "json")]
       ELSE IF r.body.code # APISuccessCode
       THEN [req |-> r.req, price |-> ParseFloat(r.body.data.price).v,
             err |-> NewBrokerError("bingx", APICode(r.body.code), r.body.msg, "nil")]
       ELSE IF ParseFloat(r.body.data.price).err
       THEN [req |-> r.req, price |-> 0,
             err |-> NewBrokerError("bingx", "PARSE_ERROR",
                        "Failed to parse price value", "strconv")]
       ELSE [req |-> r.req, price |-> ParseFloat(r.body.data.price).v, err |-> NoError]

\* Client.GetCurrentPrice
GetCurrentPrice(c, symbol, now, t) ==
    LET r == makeRequest(c, "GET", EndpointPrice, [k \in {"symbol"} |-> symbol], now, t)
    IN IF r.err # NoError
       THEN [req |-> r.req, price |-> 0, err |-> r.err]
       ELSE IF ~UnmarshalOK(r.body)
       THEN [req |-> r.req, price |-> 0,
             err |-> NewBrokerError("bingx", "PARSE_ERROR",
                        "Failed to parse price response", "json")]
       ELSE IF r.body.code # APISuccessCode
       THEN [req |-> r.req, price |-> 0,
             err |-> NewBrokerError("bingx", APICode(r.body.code), r.body.msg, "nil")]
       ELSE IF ParseFloat(r.body.data.price).err
       THEN [req |-> r.req, price |-> 0,
             err |-> NewBrokerError("bingx", "PARSE_ERROR",
                        "Failed to parse price value", "strconv")]
       ELSE [req |-> r.req, price |-> ParseFloat(r.body.data.price).v, err |-> NoError]

\* Client.SetLeverage
SetLeverage(c, symbol, side, leverage, now, t) ==
    LET params == [k \in {"symbol", "side", "leverage"} |->
                      CASE k = "symbol" -> symbol
                        [] k = "side" -> side
                        [] k = "leverage" -> FormatInt(leverage)]
        r == makeRequest(c, "POST", EndpointLeverage, params, now, t)
    IN [req |-> r.req, err |-> AckOnly(r, "Failed to parse leverage response")]

\* Client.Name
Name == "bingx"

\* Client.SupportedFeatures
SupportedFeatures ==
    [TrailingStop |-> TRUE, MultipleTP |-> TRUE, BracketOrders |-> TRUE,
     MaxLeverage |-> 125, ReduceOnlyOrders |-> TRUE]

----------------------------------------------------------------------------
(* The state machine: one client, one call at a time; a call draws its     *)
(* arguments and the transport's answer, runs to its return, and the       *)
(* caller then makes the next call.                                        *)

NoArgs == [none |-> TRUE]

Goroutines == 1..MaxGoroutines

\* a goroutine that is not calling the client
IdleCall ==
    [pc |-> "idle", op |-> "none", args |-> NoArgs, now |-> 0,
     request |-> NoRequest, resp |-> DoError("none"),
     ret |-> [price |-> 0, err |-> NoError]]

Init ==
    /\ pc = "idle"
    /\ op = "none"
    /\ args = NoArgs
    /\ request = NoRequest
    /\ resp = DoError("none")
    /\ retList = <<>>
    /\ retObj = NilObj
    /\ retPrice = 0
    /\ retErr = NoError
    /\ client = Client
    /\ calls = [g \in Goroutines |-> IdleCall]

CallGetPositions ==
    /\ pc = "idle"
    /\ \E filter \in PositionFilters, now \in Clock, t \in PositionsOutcomes :
         LET r == GetPositions(client, filter, now, t)
         IN /\ op' = "GetPositions"
            /\ args' = [filter |-> filter]
            /\ request' = r.req
            /\ resp' = t
            /\ retList' = r.list
            /\ retErr' = r.err
    /\ pc' = "done"
    /\ UNCHANGED <<client, calls>>
    /\ UNCHANGED <<retObj, retPrice>>

CallGetPosition ==
    /\ pc = "idle"
    /\ \E symbol \in Symbols \cup {""}, now \in Clock, t \in PositionsOutcomes :
         LET r == GetPosition(client, symbol, now, t)
         IN /\ op' = "GetPosition"
            /\ args' = [symbol |-> symbol]
            /\ request' = r.req
            /\ resp' = t
            /\ retObj' = r.obj
            /\ retErr' = r.err
    /\ pc' = "done"
    /\ UNCHANGED <<client, calls>>
    /\ UNCHANGED <<retList, retPrice>>

CallGetOrders ==
    /\ pc = "idle"
    /\ \E filter \in OrderFilters, now \in Clock, t \in OrdersOutcomes :
         LET r == GetOrders(client, filter, now, t)
         IN /\ op' = "GetOrders"
            /\ args' = [filter |-> filter]
            /\ request' = r.req
            /\ resp' = t
            /\ retList' = r.list
            /\ retErr' = r.err
    /\ pc' = "done"
    /\ UNCHANGED <<client, calls>>
    /\ UNCHANGED <<retObj, retPrice>>

CallGetOrdersPlain ==
    /\ pc = "idle"
    /\ \E filter \in OrderFilters, now \in Clock, t \in OrdersOutcomes :
         LET r == GetOrdersPlain(client, filter, now, t)
         IN /\ op' = "GetOrdersPlain"
            /\ args' = [filter |-> filter]
            /\ request' = r.req
            /\ resp' = t
            /\ retList' = r.list
            /\ retErr' = r.err
    /\ pc' = "done"
    /\ UNCHANGED <<client, calls>>
    /\ UNCHANGED <<retObj, retPrice>>

CallPlaceOrder ==
    /\ pc = "idle"
    /\ \E order \in OrderRequests, now \in Clock, t \in PlaceOrderOutcomes :
         LET r == PlaceOrder(client, order, now, t)
         IN /\ op' = "PlaceOrder"
            /\ args' = [order |-> order]
            /\ request' = r.req
            /\ resp' = t
            /\ retObj' = r.obj
            /\ retErr' = r.err
    /\ pc' = "done"
    /\ UNCHANGED <<client, calls>>
    /\ UNCHANGED <<retList, retPrice>>

CallCancelOrder ==
    /\ pc = "idle"
    /\ \E symbol \in Symbols, orderID \in {"7", ""}, now \in Clock, t \in AckOutcomes :
         LET r == CancelOrder(client, symbol, orderID, now, t)
         IN /\ op' = "CancelOrder"
            /\ args' = [symbol |-> symbol, orderID |-> orderID]
            /\ request' = r.req
            /\ resp' = t
            /\ retErr' = r.err
    /\ pc' = "done"
    /\ UNCHANGED <<client, calls>>
    /\ UNCHANGED <<retList, retObj, retPrice>>

CallCancelAllOrders ==
    /\ pc = "idle"
    /\ \E symbol \in Symbols \cup {""}, now \in Clock, t \in AckOutcomes :
         LET r == CancelAllOrders(client, symbol, now, t)
         IN /\ op' = "CancelAllOrders"
            /\ args' = [symbol |-> symbol]
            /\ request' = r.req
            /\ resp' = t
            /\ retErr' = r.err
    /\ pc' = "done"
    /\ UNCHANGED <<client, calls>>
    /\ UNCHANGED <<retList, retObj, retPrice>>

CallGetBalance ==
    /\ pc = "idle"
    /\ \E now \in Clock, t \in BalanceOutcomes :
         LET r == GetBalance(client, now, t)
         IN /\ op' = "GetBalance"
            /\ args' = NoArgs
            /\ request' = r.req
            /\ resp' = t
            /\ retObj' = r.obj
            /\ retErr' = r.err
    /\ pc' = "done"
    /\ UNCHANGED <<client, calls>>
    /\ UNCHANGED <<retList, retPrice>>

CallGetCurrentPrice ==
    /\ pc = "idle"
    /\ \E symbol \in Symbols \cup {"INVALID-SYMBOL"}, now \in Clock, t \in PriceOutcomes :
         LET r == GetCurrentPrice(client, symbol, now, t)
         IN /\ op' = "GetCurrentPrice"
            /\ args' = [symbol |-> symbol]
            /\ request' = r.req
            /\ resp' = t
            /\ retPrice' = r.price
            /\ retErr' = r.err
    /\ pc' = "done"
    /\ UNCHANGED <<client, calls>>
    /\ UNCHANGED <<retList, retObj>>

CallSetLeverage ==
    /\ pc = "idle"
    /\ \E symbol \in Symbols, side \in {"LONG", "SHORT"}, leverage \in {10, 125},
          now \in Clock, t \in AckOutcomes :
         LET r == SetLeverage(client, symbol, side, leverage, now, t)
         IN /\ op' = "SetLeverage"
            /\ args' = [symbol |-> symbol, side |-> side, leverage |-> leverage]
            /\ request' = r.req
            /\ resp' = t
            /\ retErr' = r.err
    /\ pc' = "done"
    /\ UNCHANGED <<client, calls>>
    /\ UNCHANGED <<retList, retObj, retPrice>>

\* the two decoders of PositionData, called on a wire value
CallGetLeverageFloat ==
    /\ pc = "idle"
    /\ \E raw \in RawValues :
         LET r == GetLeverageFloat(raw)
         IN /\ op' = "GetLeverageFloat"
            /\ args' = [raw |-> raw]
            /\ retPrice' = r.v
            /\ retErr' = IF r.err THEN DecodeError("leverage") ELSE NoError
    /\ pc' = "done"
    /\ UNCHANGED <<client, calls>>
    /\ UNCHANGED <<request, resp, retList, retObj>>

CallGetLiquidationPriceFloat ==
    /\ pc = "idle"
    /\ \E raw \in RawValues :
         LET r == GetLiquidationPriceFloat(raw)
         IN /\ op' = "GetLiquidationPriceFloat"
            /\ args' = [raw |-> raw]
            /\ retPrice' = r.v
            /\ retErr' = IF r.err THEN DecodeError("liquidation price") ELSE NoError
    /\ pc' = "done"
    /\ UNCHANGED <<client, calls>>
    /\ UNCHANGED <<request, resp, retList, retObj>>

\* the parameter maps the request building is applied to
ParamMaps ==
    {EmptyParams}
    \cup {[k \in {"symbol"} |-> sym] : sym \in Symbols}
    \cup {[k \in {"symbol", "side"} |-> IF k = "symbol" THEN sym ELSE sd] :
             sym \in Symbols, sd \in {"BUY", "SELL"}}
    \cup {[k \in {"symbol", "side", "quantity"} |->
               IF k = "symbol" THEN sym ELSE IF k = "side" THEN sd ELSE "0.10000000"] :
             sym \in Symbols, sd \in {"BUY", "SELL"}}

\* the request building of makeRequest (timestamp, canonical string,
\* signature) under one order of iteration of the parameter map
CallBuildRequest ==
    /\ pc = "idle"
    /\ \E params \in ParamMaps, now \in Clock :
         \E order \in RangeOrders(Stamped(params, now)) :
            /\ op' = "BuildRequest"
            /\ args' = [params |-> params, now |-> now, order |-> order]
            /\ request' = BuildRequestRanged(client, "GET", EndpointPositions,
                                             params, now, order)
    /\ pc' = "done"
    /\ UNCHANGED <<client, calls>>
    /\ UNCHANGED <<resp, retList, retObj, retPrice, retErr>>

\* the causes a BrokerError is built with
Causes ==
    {"nil", "authentication failed", "insufficient balance",
     Wrapping("rate limited"), "context canceled"}

\* broker.NewBrokerError called on its four arguments
CallNewBrokerError ==
    /\ pc = "idle"
    /\ \E broker \in {"bingx", "BingX"}, code \in {"100001", "100400"},
          message \in {"Invalid API key", ""}, err \in Causes :
         /\ op' = "NewBrokerError"
         /\ args' = [broker |-> broker, code |-> code, message |-> message, err |-> err]
         /\ retErr' = NewBrokerError(broker, code, message, err)
    /\ pc' = "done"
    /\ UNCHANGED <<client, calls>>
    /\ UNCHANGED <<request, resp, retList, retObj, retPrice>>

\* Name and SupportedFeatures make no request
CallName ==
    /\ pc = "idle"
    /\ op' = "Name"
    /\ retObj' = [name |-> Name]
    /\ pc' = "done"
    /\ UNCHANGED <<client, calls>>
    /\ UNCHANGED <<args, request, resp, retList, retPrice, retErr>>

CallSupportedFeatures ==
    /\ pc = "idle"
    /\ op' = "SupportedFeatures"
    /\ retObj' = SupportedFeatures
    /\ pc' = "done"
    /\ UNCHANGED <<client, calls>>
    /\ UNCHANGED <<args, request, resp, retList, retPrice, retErr>>

\* the caller has its result and the client is ready for the next call
Return ==
    /\ pc = "done"
    /\ pc' = "idle"
    /\ op' = "none"
    /\ args' = NoArgs
    /\ request' = NoRequest
    /\ resp' = DoError("none")
    /\ retList' = <<>>
    /\ retObj' = NilObj
    /\ retPrice' = 0
    /\ retErr' = NoError
    /\ UNCHANGED <<client, calls>>

Next ==
    \/ CallGetBalance
    \/ CallGetPositions
    \/ CallGetPosition
    \/ CallPlaceOrder
    \/ CallGetOrders
    \/ CallGetOrdersPlain
    \/ CallCancelOrder
    \/ CallCancelAllOrders
    \/ CallGetCurrentPrice
    \/ CallSetLeverage
    \/ CallName
    \/ CallSupportedFeatures
    \/ CallGetLeverageFloat
    \/ CallGetLiquidationPriceFloat
    \/ CallBuildRequest
    \/ CallNewBrokerError
    \/ Return

Spec == Init /\ [][Next]_vars

----------------------------------------------------------------------------
(* Goroutines calling one client at the same time: a call sends its request *)
(* (Send), the transport answers it and the operation maps the answer       *)
(* (Receive), the caller takes the result (ReturnCall); the steps of the    *)
(* calls interleave.                                                        *)

\* the calls the goroutines make
ConcurrentCalls ==
    {[op |-> "GetCurrentPrice", args |-> [symbol |-> s]] : s \in Symbols}
    \cup {[op |-> "SetLeverage",
            args |-> [symbol |-> s, side |-> "LONG", leverage |-> 10]] : s \in Symbols}

\* the answers of the transport to them
ConcurrentOutcomes(o) ==
    {Response(StatusOK, Envelope(100400, "Insufficient margin", FALSE,
                                 IF o = "GetCurrentPrice" THEN PriceData("", "") ELSE <<>>)),
     Response(500, Garbage),
     DoError("context canceled")}
    \cup (IF o = "GetCurrentPrice"
          THEN {Response(StatusOK, Envelope(APISuccessCode, "", TRUE, PriceData(s, "25"))) :
                   s \in Symbols}
          ELSE {Response(StatusOK, Envelope(APISuccessCode, "", TRUE, <<>>))})

\* the operation o run on the client fields c
Run(c, o, a, now, t) ==
    IF o = "GetCurrentPrice"
    THEN GetCurrentPrice(c, a.symbol, now, t)
    ELSE LET r == SetLeverage(c, a.symbol, a.side, a.leverage, now, t)
         IN [req |-> r.req, price |-> 0, err |-> r.err]

\* a call that stores the URL of its request in the client
ClientAfterCallStoringURL(c, req) == [c EXCEPT !.baseURL = req.url]

\* the fields of the client after a call has built and sent its request: no
\* operation assigns a field of c
ClientAfterCall(c, req) == c

Send(g) ==
    /\ calls[g].pc = "idle"
    /\ \E call \in ConcurrentCalls, now \in Clock :
         LET req == Run(client, call.op, call.args, now, DoError("none")).req
         IN /\ calls' = [calls EXCEPT ![g] =
                            [IdleCall EXCEPT !.pc = "sent", !.op = call.op,
                                             !.args = call.args, !.now = now,
                                             !.request = req]]
            /\ client' = ClientAfterCall(client, req)
    /\ UNCHANGED sequential

Receive(g) ==
    /\ calls[g].pc = "sent"
    /\ \E t \in ConcurrentOutcomes(calls[g].op) :
         LET r == Run(client, calls[g].op, calls[g].args, calls[g].now, t)
         IN calls' = [calls EXCEPT ![g].pc = "done", ![g].resp = t,
                                   ![g].ret = [price |-> r.price, err |-> r.err]]
    /\ UNCHANGED client
    /\ UNCHANGED sequential

ReturnCall(g) ==
    /\ calls[g].pc = "done"
    /\ calls' = [calls EXCEPT ![g] = IdleCall]
    /\ UNCHANGED client
    /\ UNCHANGED sequential

NextConcurrent ==
    \E g \in Goroutines :
       \/ Send(g)
       \/ Receive(g)
       \/ ReturnCall(g)

SpecConcurrent == Init /\ [][NextConcurrent]_vars

----------------------------------------------------------------------------
(* Shorthands of the properties *)

Returned(o) == pc = "done" /\ op = o

\* the transport delivered a 200 response
Delivered == resp.kind = "resp" /\ resp.status = StatusOK

\* ... whose body decodes as the envelope
Decoded == Delivered /\ resp.body.kind = "envelope"

\* ... with the success code
Accepted == Decoded /\ resp.body.code = APISuccessCode

TriggerTypes == {"STOP", "STOP_MARKET", "TAKE_PROFIT", "TAKE_PROFIT_MARKET"}

\* the operations that call the exchange
TransportOps ==
    {"GetBalance", "GetPositions", "GetPosition", "PlaceOrder", "GetOrders",
     "GetOrdersPlain", "CancelOrder", "CancelAllOrders", "GetCurrentPrice",
     "SetLeverage"}

\* the size a wire position record decodes to
DecodedSize(p) == ParseFloat(p.positionAmt).v

\* the wire records of a positions response with a non-zero size, in order
NonZeroRecords(data) ==
    LET NonZero(p) == DecodedSize(p) # 0 IN SelectSeq(data, NonZero)

\* the wire records a positions filter lets through, in order
WantedRecords(data, filter) ==
    LET Wanted(p) ==
          /\ DecodedSize(p) # 0
          /\ \/ filter.nil
             \/ filter.Side = "nil"
             \/ filter.Side = (IF p.positionSide = "LONG" THEN "LONG" ELSE "SHORT")
    IN SelectSeq(data, Wanted)

----------------------------------------------------------------------------
(* Properties *)

\* C1: GetPositions returns no Position of size 0, whatever the response and
\* the filter: the records of decoded size 0 are dropped and not counted, the
\* result holding exactly the non-zero records the side filter lets through.
C1_ZeroSizeNeverReturned ==
    Returned("GetPositions") =>
        /\ \A i \in 1..Len(retList) : retList[i].Size # 0
        /\ Len(retList) <= Len(NonZeroRecords(resp.body.data))
        /\ Accepted =>
             LET kept == WantedRecords(resp.body.data, args.filter)
             IN /\ Len(retList) = Len(kept)
                /\ \A i \in 1..Len(kept) :
                     /\ retList[i].Size = DecodedSize(kept[i])
                     /\ retList[i].Symbol = kept[i].symbol

\* a response mixing zero and non-zero records was filtered by side
C1_Witness ==
    /\ Returned("GetPositions") /\ Accepted
    /\ args.filter.Side # "nil"
    /\ Len(resp.body.data) = 2
    /\ DecodedSize(resp.body.data[1]) = 0
    /\ resp.body.data[1].positionAmt = "abc"
    /\ Len(retList) = 1

\* C2: the status of a listed order is PENDING when its type is one of STOP,
\* STOP_MARKET, TAKE_PROFIT, TAKE_PROFIT_MARKET and its raw status is NEW, and
\* the raw status otherwise; its type is the wire type.
C2_StatusMapping ==
    (Returned("GetOrders") /\ Accepted /\ args.filter.Side = "nil") =>
        /\ Len(retList) = Len(resp.body.data)
        /\ \A i \in 1..Len(retList) :
             LET o == resp.body.data[i]
             IN /\ retList[i].Type = o.type
                /\ (o.type \in TriggerTypes /\ o.status = "NEW")
                      => retList[i].Status = "PENDING"
                /\ ~(o.type \in TriggerTypes /\ o.status = "NEW")
                      => retList[i].Status = o.status

\* a trigger order reported NEW was listed next to a LIMIT order reported NEW
C2_Witness ==
    /\ Returned("GetOrders") /\ Accepted
    /\ Len(retList) = 2
    /\ resp.body.data[1].type = "TAKE_PROFIT_MARKET" /\ resp.body.data[1].status = "NEW"
    /\ retList[1].Status = "PENDING"
    /\ resp.body.data[2].type = "LIMIT" /\ resp.body.data[2].status = "NEW"
    /\ retList[2].Status = "NEW"

\* C3: no Order returned by GetOrders or PlaceOrder has a trigger type and
\* the status NEW.
C3_NoTriggerOrderIsNew ==
    /\ (pc = "done" /\ op \in {"GetOrders", "GetOrdersPlain"}) =>
          \A i \in 1..Len(retList) :
             ~(retList[i].Type \in TriggerTypes /\ retList[i].Status = "NEW")
    /\ (Returned("PlaceOrder") /\ retErr = NoError) =>
          ~(retObj.Type \in TriggerTypes /\ retObj.Status = "NEW")

\* C4: the ReduceOnly flag of a listed order is true exactly for the pairs
\* (SELL, LONG) and (BUY, SHORT) of action and position direction.
C4_ReduceOnlyInference ==
    (Returned("GetOrders") /\ Accepted /\ args.filter.Side = "nil") =>
        /\ Len(retList) = Len(resp.body.data)
        /\ \A i \in 1..Len(retList) :
             LET o == resp.body.data[i]
             IN retList[i].ReduceOnly <=>
                   (<<o.side, o.positionSide>> \in {<<"SELL", "LONG">>, <<"BUY", "SHORT">>})

\* a closing order, an opening order and an order with a lower-case action
\* were listed
C4_Witness ==
    /\ Returned("GetOrders") /\ Accepted
    /\ Len(retList) = 2
    /\ resp.body.data[1].side = "BUY" /\ resp.body.data[1].positionSide = "SHORT"
    /\ retList[1].ReduceOnly
    /\ resp.body.data[2].side = "sell" /\ resp.body.data[2].positionSide = "LONG"
    /\ ~retList[2].ReduceOnly

\* C5: in GetPositions, GetOrders and PlaceOrder the Side of a returned
\* object is Long exactly when the wire direction is "LONG" and Short for
\* every other text; no third value and no error comes of it.
C5_SideMapping ==
    /\ (Returned("GetPositions") /\ Accepted) =>
          /\ retErr = NoError
          /\ LET kept == WantedRecords(resp.body.data, args.filter)
             IN /\ Len(retList) = Len(kept)
                /\ \A i \in 1..Len(kept) :
                     /\ retList[i].Side \in {SideLong, SideShort}
                     /\ retList[i].Side = SideLong <=> kept[i].positionSide = "LONG"
    /\ (Returned("GetOrders") /\ Accepted /\ args.filter.Side = "nil") =>
          /\ retErr = NoError
          /\ Len(retList) = Len(resp.body.data)
          /\ \A i \in 1..Len(retList) :
                /\ retList[i].Side \in {SideLong, SideShort}
                /\ retList[i].Side = SideLong <=> resp.body.data[i].positionSide = "LONG"
    /\ (Returned("PlaceOrder") /\ Accepted) =>
          /\ retErr = NoError
          /\ retObj.Side \in {SideLong, SideShort}
          /\ retObj.Side = SideLong <=> resp.body.data.positionSide = "LONG"

\* positions with the directions "long" and "" came back Short
C5_Witness ==
    /\ Returned("GetPositions") /\ Accepted
    /\ Len(retList) = 2
    /\ resp.body.data[1].positionSide = "long" /\ retList[1].Side = SideShort
    /\ resp.body.data[2].positionSide = "" /\ retList[2].Side = SideShort

\* C6: GetPosition returns the position-not-found error when the list
\* GetPositions gives for the symbol is empty, else the first element of that
\* list, which is built from the first non-zero record in the order of the
\* response; an error of GetPositions is returned as it is.
C6_GetPositionFirstOfList ==
    Returned("GetPosition") =>
        LET g == GetPositions(Client, PositionFilter(args.symbol, "nil"),
                              CHOOSE now \in Clock : TRUE, resp)
            nonZero == NonZeroRecords(resp.body.data)
        IN /\ g.err # NoError => (retErr = g.err /\ retObj = NilObj)
           /\ (g.err = NoError /\ Len(g.list) = 0) =>
                 (retErr = ErrPositionNotFound /\ retObj = NilObj)
           /\ (g.err = NoError /\ Len(g.list) > 0) =>
                 (retErr = NoError /\ retObj = g.list[1])
           /\ (Accepted /\ Len(nonZero) > 0) =>
                 /\ retObj.Symbol = nonZero[1].symbol
                 /\ retObj.Size = DecodedSize(nonZero[1])
                 /\ retObj.Side = SideLong <=> nonZero[1].positionSide = "LONG"

\* of two non-zero records that differ, the first was returned
C6_Witness ==
    /\ Returned("GetPosition") /\ Accepted
    /\ Len(resp.body.data) = 2
    /\ DecodedSize(resp.body.data[1]) = -1
    /\ DecodedSize(resp.body.data[2]) = 1
    /\ resp.body.data[1].positionSide # resp.body.data[2].positionSide
    /\ retErr = NoError
    /\ retObj.Size = -1

\* C7 as stated: GetPosition fails with the not-found error whenever the
\* response holds no non-zero position of the requested symbol, and a
\* returned Position has the requested symbol.
C7_ReturnedSymbolIsRequested ==
    (Returned("GetPosition") /\ Accepted) =>
        /\ (\A i \in 1..Len(resp.body.data) :
               ~(DecodedSize(resp.body.data[i]) # 0
                 /\ resp.body.data[i].symbol = args.symbol))
              => retErr = ErrPositionNotFound
        /\ retErr = NoError => retObj.Symbol = args.symbol

\* C7 as amended: the symbol goes to the exchange as a request parameter
\* when it is not empty and the records of the response are not compared
\* with it: GetPosition fails with the not-found error exactly when the
\* response holds no non-zero position at all, and otherwise returns the
\* first non-zero record, under that record's symbol, which is the requested
\* one when every record of the response carries the requested symbol.
C7_SymbolLeftToExchange ==
    Returned("GetPosition") =>
        /\ (args.symbol # "") <=>
              (\E i \in 1..Len(request.query) :
                  request.query[i] = <<"symbol", args.symbol>>)
        /\ \A i \in 1..Len(request.query) :
              request.query[i][1] = "symbol" => request.query[i][2] = args.symbol
        /\ Accepted =>
             LET nonZero == NonZeroRecords(resp.body.data)
             IN /\ Len(nonZero) = 0 <=> retErr = ErrPositionNotFound
                /\ Len(nonZero) > 0 =>
                     /\ retErr = NoError
                     /\ retObj.Symbol = nonZero[1].symbol
                     /\ (\A i \in 1..Len(resp.body.data) :
                            resp.body.data[i].symbol = args.symbol)
                          => retObj.Symbol = args.symbol

\* a position of another symbol than the requested one was returned
C7_Witness ==
    /\ Returned("GetPosition") /\ Accepted
    /\ args.symbol = "BTC-USDT"
    /\ retErr = NoError
    /\ retObj.Symbol = "ETH-USDT"

\* C8: when the HTTP status is not 200 the operation fails with the
\* HTTP_ERROR error and returns nothing, whatever the body holds.
C8_NonOKStatusIsHTTPError ==
    (pc = "done" /\ op \in TransportOps /\ resp.kind = "resp"
       /\ resp.status # StatusOK) =>
        /\ retErr.kind = "BrokerError"
        /\ retErr.Code = "HTTP_ERROR"
        /\ retErr.Err = "nil"
        /\ retList = <<>>
        /\ retObj = NilObj
        /\ retPrice = 0

\* a 500 response carrying a success-coded envelope with a position in it
C8_Witness ==
    /\ Returned("GetPositions")
    /\ resp.kind = "resp" /\ resp.status = 500
    /\ resp.body.kind = "envelope" /\ resp.body.code = APISuccessCode
    /\ Len(resp.body.data) = 1 /\ DecodedSize(resp.body.data[1]) # 0
    /\ retErr.Code = "HTTP_ERROR"

\* C9: a 200 response whose envelope has a code c other than 0 fails with
\* the error of Code "API_" followed by c and of Message the envelope's msg;
\* that Code is neither the one of a non-200 status nor the one of a body
\* that does not decode.
C9_APIErrorCarriesCode ==
    (pc = "done" /\ op \in TransportOps) =>
        /\ (Decoded /\ resp.body.code # APISuccessCode) =>
              /\ retErr.kind = "BrokerError"
              /\ retErr.Code = "API_" \o ToString(resp.body.code)
              /\ resp.body.code = 100400 => retErr.Code = "API_100400"
              /\ retErr.Message = resp.body.msg
              /\ retErr.Code \notin {"HTTP_ERROR", "PARSE_ERROR", "NO_DATA",
                                     "REQUEST_FAILED", "READ_FAILED"}
        /\ (Delivered /\ resp.body.kind # "envelope") => retErr.Code = "PARSE_ERROR"
        /\ (resp.kind = "resp" /\ resp.status # StatusOK) => retErr.Code = "HTTP_ERROR"

\* the exchange rejected a price query with code 100400
C9_Witness ==
    /\ Returned("GetCurrentPrice") /\ Decoded
    /\ resp.body.code = 100400 /\ resp.body.msg = "Insufficient margin"
    /\ retErr.Code = "API_100400"
    /\ retErr.Message = "Insufficient margin"

\* C10: GetBalance fails with the NO_DATA error exactly when the response is
\* success-coded and its data list is empty or absent, and returns the
\* Balance of the first entry when the list is not empty.
C10_NoDataIffEmptySuccess ==
    Returned("GetBalance") =>
        /\ (retErr.Code = "NO_DATA") <=> (Accepted /\ Len(resp.body.data) = 0)
        /\ retErr.Code = "NO_DATA" => (retErr.kind = "BrokerError" /\ retObj = NilObj)
        /\ (Accepted /\ Len(resp.body.data) > 0) =>
              /\ retErr = NoError
              /\ retObj.Asset = resp.body.data[1].asset
              /\ retObj.Total = ParseFloat(resp.body.data[1].equity).v
              /\ retObj.Available = ParseFloat(resp.body.data[1].availableMargin).v
              /\ retObj.InUse = ParseFloat(resp.body.data[1].usedMargin).v

\* a success-coded balance response without data
C10_Witness ==
    /\ Returned("GetBalance") /\ Accepted
    /\ ~resp.body.hasData
    /\ retErr.Code = "NO_DATA"

\* the JSON shapes that are neither a string nor a number
OtherShapes == {"null", "bool", "object", "array"}

\* C11 as stated: both decoders fail, and return no number, for every wire
\* value that is neither a JSON string nor a JSON number.
C11_OtherShapesFail ==
    (pc = "done" /\ op \in {"GetLeverageFloat", "GetLiquidationPriceFloat"}
       /\ args.raw.t \in OtherShapes) =>
        retErr # NoError

\* C11 as amended: GetLeverageFloat fails for null, boolean, object and
\* array; GetLiquidationPriceFloat fails for boolean, object and array, and
\* returns 0 with no error for null.
C11_OtherShapesFailButNullPrice ==
    /\ (Returned("GetLeverageFloat") /\ args.raw.t \in OtherShapes) =>
          (retErr # NoError /\ retPrice = 0)
    /\ (Returned("GetLiquidationPriceFloat")
          /\ args.raw.t \in OtherShapes \ {"null"}) =>
          (retErr # NoError /\ retPrice = 0)
    /\ (Returned("GetLiquidationPriceFloat") /\ args.raw.t = "null") =>
          (retErr = NoError /\ retPrice = 0)

\* a boolean was handed to GetLiquidationPriceFloat and refused
C11_Witness ==
    /\ Returned("GetLiquidationPriceFloat")
    /\ args.raw = RawBool
    /\ retErr # NoError

\* the two decoders
Decoders == {"GetLeverageFloat", "GetLiquidationPriceFloat"}

\* C12: both decoders return 0 with no error for the empty JSON string, and
\* fail for a non-empty string that is not a numeral.
C12_EmptyStringIsZero ==
    (pc = "done" /\ op \in Decoders /\ args.raw.t = "string") =>
        /\ args.raw.s = "" => (retErr = NoError /\ retPrice = 0)
        /\ args.raw.s \in {"abc", "invalid"} => retErr # NoError

\* C13: GetLiquidationPriceFloat returns 0 and a nil error for JSON null, as
\* it does for the empty string.
C13_NullPriceIsZero ==
    (Returned("GetLiquidationPriceFloat")
       /\ args.raw \in {RawNull, RawString("")}) =>
        (retPrice = 0 /\ retErr = NoError)

\* GetLiquidationPriceFloat was called on null
C13_Witness ==
    /\ Returned("GetLiquidationPriceFloat")
    /\ args.raw = RawNull
    /\ retPrice = 0
    /\ retErr = NoError

\* the numbers whose spellings are decoded, in tenths
Numerals == {-1, 0, 1, 5, 100, 250, 505}

\* the wire value is a JSON number or the string spelling of a number
IsNumeral(raw) ==
    \/ raw.t = "number"
    \/ raw.t = "string" /\ \E n \in Numerals : FormatG(n) = raw.s

\* the number a numeral wire value spells
NumeralOf(raw) ==
    IF raw.t = "number" THEN raw.n
    ELSE CHOOSE n \in Numerals : FormatG(n) = raw.s

\* C14: a decoder gives the number n, with no error, for the JSON number n
\* and for the JSON string spelling n alike; in a positions response every
\* returned position carries the leverage (as an integer) and the liquidation
\* price of its own record, whatever the shapes of the other records.
C14_ShapeAgnostic ==
    /\ \A n \in Numerals :
          /\ GetLeverageFloat(RawString(FormatG(n))) = GetLeverageFloat(RawNumber(n))
          /\ GetLiquidationPriceFloat(RawString(FormatG(n)))
                = GetLiquidationPriceFloat(RawNumber(n))
    /\ (pc = "done" /\ op \in Decoders /\ IsNumeral(args.raw)) =>
          (retErr = NoError /\ retPrice = NumeralOf(args.raw))
    /\ (Returned("GetPositions") /\ Accepted) =>
          LET w == WantedRecords(resp.body.data, args.filter)
          IN /\ Len(retList) = Len(w)
             /\ \A i \in 1..Len(w) :
                   /\ IsNumeral(w[i].leverage) =>
                         retList[i].Leverage = IntOf(NumeralOf(w[i].leverage))
                   /\ IsNumeral(w[i].liquidationPrice) =>
                         retList[i].LiquidationPrice = NumeralOf(w[i].liquidationPrice)

\* a response mixing a string leverage and a number leverage was mapped
C14_Witness ==
    /\ Returned("GetPositions")
    /\ Accepted
    /\ Len(retList) = 2
    /\ resp.body.data[1].leverage = RawString("10")
    /\ resp.body.data[2].leverage = RawNumber(250)
    /\ resp.body.data[2].liquidationPrice = RawNumber(505)
    /\ retList[1].Leverage = 10
    /\ retList[2].Leverage = 25
    /\ retList[2].LiquidationPrice = 505

\* a price, size or leverage field of the wire record does not decode
UndecodablePosition(p) ==
    \/ ParseFloat(p.positionAmt).err
    \/ GetLeverageFloat(p.leverage).err
    \/ GetLiquidationPriceFloat(p.liquidationPrice).err

UndecodableOrder(o) == ParseFloat(o.origQty).err \/ ParseFloat(o.price).err

UndecodableBalance(b) ==
    \/ ParseFloat(b.equity).err
    \/ ParseFloat(b.availableMargin).err
    \/ ParseFloat(b.usedMargin).err
    \/ ParseFloat(b.unrealizedProfit).err
    \/ ParseFloat(b.realisedProfit).err

\* C15: GetPositions, GetOrders, GetBalance and PlaceOrder return an error
\* when a price, size or leverage field of the accepted response does not
\* decode: no object is returned with 0 in its place and no record is dropped.
C15_FailClosed ==
    /\ (Returned("GetPositions") /\ Accepted
          /\ \E i \in 1..Len(resp.body.data) : UndecodablePosition(resp.body.data[i]))
          => retErr # NoError
    /\ (pc = "done" /\ op \in {"GetOrders", "GetOrdersPlain"} /\ Accepted
          /\ \E i \in 1..Len(resp.body.data) : UndecodableOrder(resp.body.data[i]))
          => retErr # NoError
    /\ (Returned("GetBalance") /\ Accepted /\ Len(resp.body.data) > 0
          /\ UndecodableBalance(resp.body.data[1]))
          => retErr # NoError
    /\ (Returned("PlaceOrder") /\ Accepted /\ UndecodableOrder(resp.body.data))
          => retErr # NoError

\* the place of a parameter key in the byte order of keys
KeyRank(k) == CHOOSE i \in 1..Len(SortedKeys) : SortedKeys[i] = k

\* the keys of a query string ascend strictly in byte order
Ascending(q) ==
    \A i, j \in 1..Len(q) : i < j => KeyRank(q[i][1]) < KeyRank(q[j][1])

\* C16: signing is deterministic: whatever the order in which the parameter
\* map is iterated, a fixed key, parameter map and timestamp give one query
\* string and one signature, and the query string lists the keys in sorted
\* order.
C16_SigningDeterministic ==
    Returned("BuildRequest") =>
        /\ \A o \in RangeOrders(Stamped(args.params, args.now)) :
              BuildRequestRanged(Client, "GET", EndpointPositions,
                                 args.params, args.now, o) = request
        /\ request.query = Encode(Stamped(args.params, args.now))
        /\ request.signature = sign(Client, request.query)
        /\ Ascending(request.query)
        /\ Len(request.query) = Cardinality(DOMAIN args.params) + 1

\* four parameters were ranged over with the timestamp first and encoded
\* with the quantity first
C16_Witness ==
    /\ Returned("BuildRequest")
    /\ Len(args.order) = 4
    /\ args.order[1] = "timestamp"
    /\ args.order[4] = "quantity"
    /\ request.query[1][1] = "quantity"
    /\ request.query[4][1] = "timestamp"

\* the keys of a query string
QueryKeys(q) == {q[i][1] : i \in 1..Len(q)}

\* the parameter map a query string with distinct keys spells
QueryMap(q) ==
    [k \in QueryKeys(q) |-> q[CHOOSE i \in 1..Len(q) : q[i][1] = k][2]]

ContextCauses == {"context canceled", "context deadline exceeded"}

\* the transport call was aborted by the caller's context
Cancelled == resp.kind = "doerr" /\ resp.cause \in ContextCauses

\* C20: when the context is cancelled or times out during the transport
\* call, the operation returns an error that matches the context's cause
\* (errors.Is); the error of an API rejection, of a network failure, of a
\* non-200 status or of any other failure matches no context cause, so the
\* cancellation error is none of them.
C20_CancellationIsDistinct ==
    (pc = "done" /\ op \in TransportOps) =>
        /\ Cancelled =>
              /\ retErr # NoError
              /\ \A c \in ContextCauses : Is(retErr, c) <=> c = resp.cause
        /\ ~Cancelled => \A c \in ContextCauses : ~Is(retErr, c)
        /\ \A other \in
                {NewBrokerError("bingx", "REQUEST_FAILED", "HTTP request failed", n) :
                    n \in DoCauses \ ContextCauses}
                \cup {NewBrokerError("bingx", APICode(h[1]), h[2], "nil") : h \in ErrorHeads} :
              Cancelled => retErr # other

\* GetBalance was cancelled by its caller
C20_Witness ==
    /\ Returned("GetBalance")
    /\ resp = DoError("context canceled")
    /\ retErr.Code = "REQUEST_FAILED"
    /\ Is(retErr, "context canceled")
    /\ ~Is(retErr, "context deadline exceeded")

StatusWanted(data, filter) ==
    LET Wanted(o) ==
          \/ filter.nil
          \/ filter.Status = "nil"
          \/ mapBingXStatus(o.status, o.type) = filter.Status
    IN SelectSeq(data, Wanted)

\* C21: GetOrders returns, in the exchange's order, exactly the decoded
\* orders whose normalized status equals the filter's Status, every decoded
\* order when the Status is unset or the filter nil, and sends the exchange
\* no parameter of the filter but the symbol.
C21_StatusFilteredClientSide ==
    (Returned("GetOrders") /\ Accepted) =>
        LET w == StatusWanted(resp.body.data, args.filter)
        IN /\ Len(retList) = Len(w)
           /\ \A i \in 1..Len(w) :
                 /\ retList[i].ID = FormatInt(w[i].orderId)
                 /\ retList[i].Status = mapBingXStatus(w[i].status, w[i].type)
           /\ QueryKeys(request.query) \subseteq {"symbol", "timestamp"}

\* C22: every Position returned by GetPositions or GetPosition has a Size
\* greater than 0, whatever the sign of the wire positionAmt.
C22_SizeIsPositive ==
    /\ (Returned("GetPositions") /\ retErr = NoError) =>
          \A i \in 1..Len(retList) : retList[i].Size > 0
    /\ (Returned("GetPosition") /\ retErr = NoError) => retObj.Size > 0

\* C23: PlaceOrder sends the request's TimeInForce when it is set, GTC when
\* it is omitted and the type is Limit, and no timeInForce parameter when it
\* is omitted and the type is another one.
C23_TimeInForceDefault ==
    Returned("PlaceOrder") =>
        LET sent == QueryMap(request.query)
            order == args.order
        IN /\ order.TimeInForce # "" =>
                 ("timeInForce" \in DOMAIN sent /\ sent["timeInForce"] = order.TimeInForce)
           /\ (order.TimeInForce = "" /\ order.Type = OrderTypeLimit) =>
                 ("timeInForce" \in DOMAIN sent /\ sent["timeInForce"] = "GTC")
           /\ (order.TimeInForce = "" /\ order.Type # OrderTypeLimit) =>
                 "timeInForce" \notin DOMAIN sent

\* a limit order without a time in force was sent with GTC
C23_Witness ==
    /\ Returned("PlaceOrder")
    /\ args.order.Type = OrderTypeLimit
    /\ args.order.TimeInForce = ""
    /\ QueryMap(request.query)["timeInForce"] = "GTC"

\* C24: NewBrokerError stores broker, code, message and cause unchanged;
\* Unwrap returns the cause given (nil when none), and errors.Is matches a
\* canonical error exactly when the cause is that error or wraps it.
C24_CauseInspectable ==
    Returned("NewBrokerError") =>
        /\ retErr.kind = "BrokerError"
        /\ retErr.Broker = args.broker
        /\ retErr.Code = args.code
        /\ retErr.Message = args.message
        /\ Unwrap(retErr) = args.err
        /\ \A target \in CanonicalErrors :
              Is(retErr, target) <=>
                 (args.err = target \/ args.err = Wrapping(target))

\* a BrokerError was built around a cause that wraps ErrRateLimited
C24_Witness ==
    /\ Returned("NewBrokerError")
    /\ args.err = Wrapping("rate limited")
    /\ Unwrap(retErr) = Wrapping("rate limited")
    /\ Is(retErr, "rate limited")
    /\ ~Is(retErr, "authentication failed")

\* C25: when the exchange rejects a call, the returned error matches a
\* canonical error of package broker under errors.Is.
C25_RejectionsAreTyped ==
    (pc = "done" /\ op \in TransportOps /\ Decoded
       /\ resp.body.code # APISuccessCode) =>
        \E target \in CanonicalErrors : Is(retErr, target)

\* the Balance field is the number its wire field spells, when it spells one
FromWire(field, text) == ~ParseFloat(text).err => field = ParseFloat(text).v

\* C26: GetBalance takes each field of the Balance from its own wire field
\* of the first data entry and computes none: InUse is usedMargin even when
\* it differs from Total - Available.
C26_BalanceFieldMapping ==
    (Returned("GetBalance") /\ retErr = NoError) =>
        LET data == resp.body.data[1]
        IN /\ retObj.Asset = data.asset
           /\ FromWire(retObj.Total, data.equity)
           /\ FromWire(retObj.Available, data.availableMargin)
           /\ FromWire(retObj.InUse, data.usedMargin)
           /\ FromWire(retObj.UnrealizedPnL, data.unrealizedProfit)
           /\ FromWire(retObj.RealizedPnL, data.realisedProfit)

\* a balance whose used margin is not the equity less the available margin
C26_Witness ==
    /\ Returned("GetBalance")
    /\ retErr = NoError
    /\ retObj.Total = 10500
    /\ retObj.Available = 9500
    /\ retObj.InUse = 250
    /\ retObj.UnrealizedPnL = -1
    /\ retObj.RealizedPnL = 5

\* the code of the error the first failing response check gives, "" when
\* no check fails: transport, reading, HTTP status, decoding, API code and,
\* for GetBalance, the empty data list
FirstFailingCheck ==
    CASE resp.kind = "doerr" -> "REQUEST_FAILED"
      [] resp.kind = "readerr" -> "READ_FAILED"
      [] resp.kind = "resp" /\ resp.status # StatusOK -> "HTTP_ERROR"
      [] Delivered /\ resp.body.kind # "envelope" -> "PARSE_ERROR"
      [] Decoded /\ resp.body.code # APISuccessCode -> APICode(resp.body.code)
      [] Accepted /\ op = "GetBalance" /\ Len(resp.body.data) = 0 -> "NO_DATA"
      [] OTHER -> ""

\* C27: the response checks run in one order (transport, HTTP status,
\* decoding, API code, then the empty data of GetBalance) and the first that
\* fails decides the error; nothing of the data is returned unless the code
\* is 0.
C27_FirstFailingCheckDecides ==
    (pc = "done" /\ op \in TransportOps) =>
        /\ FirstFailingCheck # "" =>
              /\ retErr.kind = "BrokerError"
              /\ retErr.Code = FirstFailingCheck
              /\ retList = <<>>
              /\ retObj = NilObj
              /\ retPrice = 0
        /\ retErr = NoError => Accepted

\* a positions response with a rejection code and a valid position in data
C27_Witness ==
    /\ Returned("GetPositions")
    /\ Decoded
    /\ resp.body.code = 100400
    /\ Len(resp.body.data) = 1
    /\ resp.body.data[1].positionAmt = "0.1"
    /\ retErr.Code = "API_100400"
    /\ retList = <<>>

\* the order of a PlaceOrder request as the exchange lists it: with the
\* action, position direction and type that were sent
ListedAsSent(sent) ==
    OpenOrderData(7, sent["symbol"], sent["side"], sent["positionSide"],
                  sent["type"], "NEW", "0.1", "25")

\* C28: an order that the exchange lists with the action and position
\* direction PlaceOrder sent for it is reported by GetOrders with the
\* ReduceOnly flag of the OrderRequest.
C28_ReduceOnlyRoundTrip ==
    (Returned("PlaceOrder") /\ retErr = NoError) =>
        LET listed == ListedAsSent(QueryMap(request.query))
            r == GetOrders(Client, NilOrderFilter, CHOOSE now \in Clock : TRUE,
                           Response(StatusOK,
                                    Envelope(APISuccessCode, "", TRUE, <<listed>>)))
        IN /\ r.err = NoError
           /\ Len(r.list) = 1
           /\ r.list[1].ReduceOnly = args.order.ReduceOnly

\* a leg serialized from its config: the trigger price as stopPrice, the
\* order price as price, the config's working type
LegJSON(type, config) ==
    "{\"type\":\"" \o type \o "\",\"stopPrice\":" \o FormatG(config.TriggerPrice)
    \o ",\"price\":" \o FormatG(config.OrderPrice)
    \o ",\"workingType\":\"" \o config.WorkingType \o "\"}"

\* C29: PlaceOrder serializes an attached StopLoss and TakeProfit under the
\* keys stopLoss and takeProfit, each with stopPrice = TriggerPrice, price =
\* OrderPrice and the config's WorkingType, and takes the payload request
\* path exactly when a leg is attached.
C29_LegsSerializedFromConfig ==
    Returned("PlaceOrder") =>
        LET sent == QueryMap(request.query)
            order == args.order
        IN /\ request.via = "makeRequestWithPayload" <=>
                 (~order.StopLoss.nil \/ ~order.TakeProfit.nil)
           /\ "stopLoss" \in DOMAIN sent <=> ~order.StopLoss.nil
           /\ "takeProfit" \in DOMAIN sent <=> ~order.TakeProfit.nil
           /\ ~order.StopLoss.nil =>
                 sent["stopLoss"] = LegJSON("STOP", order.StopLoss)
           /\ ~order.TakeProfit.nil =>
                 sent["takeProfit"] = LegJSON("TAKE_PROFIT", order.TakeProfit)

\* C30: an operation returns a result or an error, never both: with an
\* error the list is nil, the object nil and the price 0; without one the
\* operations returning one object return it.
C30_ResultXorError ==
    (pc = "done" /\ op \in TransportOps) =>
        /\ retErr # NoError =>
              (retList = <<>> /\ retObj = NilObj /\ retPrice = 0)
        /\ (retErr = NoError /\ op \in {"GetBalance", "GetPosition", "PlaceOrder"}) =>
              (retObj # NilObj /\ retList = <<>>)
        /\ (retErr = NoError
              /\ op \in {"GetPositions", "GetOrders", "GetOrdersPlain"}) =>
              (DOMAIN retList = 1..Len(retList) /\ retObj = NilObj)

\* GetPosition found no position in an accepted response
C30_Witness ==
    /\ Returned("GetPosition")
    /\ Accepted
    /\ retErr = ErrPositionNotFound
    /\ retObj = NilObj

====
